---- MODULE Spec2Model ----
(***************************************************************************)
(* Model of the two algorithmic cores of the Prismatic SVG baseline:       *)
(*   - NetworkView.detectCluster (network-view.js): thresholded            *)
(*     correlation graph, BFS from the must-have tickers, connected        *)
(*     components, component ordering;                                     *)
(*   - the brush latency samplers (MatrixEnriched.measureBrush,            *)
(*     PrismDynamic.measureBrush, PrismMulti.measureBrush,                 *)
(*     measurePrismBrushLatency) and the samplers of the standalone matrix *)
(*     page (measureHoverLatency, measureBrushLatency and the runBenchmark *)
(*     that awaits them): a promise, a next() step, a                      *)
(*     requestAnimationFrame callback and a zero-delay timer.              *)
(*                                                                         *)
(* Tickers are modelled by their rank in the lexical order of the ticker   *)
(* strings (1 < 2 < ...), correlations and thresholds in tenths (10 = 1.0),*)
(* node indices are 0-based as in the source, JavaScript arrays are        *)
(* sequences and JavaScript Sets are duplicate-free sequences in           *)
(* insertion order.                                                        *)
(***************************************************************************)
EXTENDS Integers, Sequences, FiniteSets, TLC

\* ------------------------------------------------------------------ bounds

\* Largest number of tickers of a correlation matrix.
MaxN == 5

\* Longest must-have list handed to detectCluster.
MaxMH == 2

\* Largest number of strongly correlated pairs of a correlation matrix.
MaxStrong == 3

\* Largest trial argument (n, T) handed to a sampler.
MaxTrials == 3

\* Largest number of cells in a sampler's target selection.
MaxCells == 2

\* Longest time (ms) between two steps of a sampler run.
MaxTick == 1

\* Largest number of tickers the standalone matrix page renders.
MaxBenchN == 3

\* The years of the manifest.
MaxYears == 2

\* The clicks of the user on the combined page, and those on Generate.
MaxClicks == 4

MaxGenerate == 2

\* ----------------------------------------------------------------- helpers

\* JavaScript's undefined (a missing property, an out-of-range array read).
Undefined == "undefined"

\* Math.abs
Abs(x) == IF x < 0 THEN -x ELSE x

\* Math.min
Min(a, b) == IF a <= b THEN a ELSE b

\* The elements of a sequence.
Range(s) == {s[k] : k \in 1..Len(s)}

\* Array.prototype.includes / Set.prototype.has on a sequence.
Includes(s, x) == \E k \in 1..Len(s) : s[k] = x

\* indices.map(idx => tickers[idx])
TickersOf(tickers, indices) == [k \in 1..Len(indices) |-> tickers[indices[k]]]

\* ------------------------------------------------- correlation data (input)

\* loadCorrelationForYear: tickerIndex[t] = i for every position i of
\* tickers (a later position overwrites an earlier one).
BuildTickerIndex(n, tickers) ==
    [t \in {tickers[i] : i \in 0..(n - 1)} |->
        CHOOSE i \in 0..(n - 1) :
            /\ tickers[i] = t
            /\ \A k \in 0..(n - 1) : tickers[k] = t => k <= i]

\* The record loadCorrelationForYear caches for one year.
MakeCorrData(n, tickers, matrix) ==
    [ tickers     |-> tickers,
      matrix      |-> matrix,
      tickerIndex |-> BuildTickerIndex(n, tickers),
      nTickers    |-> n ]

\* ------------------------------------------------------------ detectCluster

\* A plausible slip: filter(t => tickerIndex[t]) drops the ticker of index 0.
FilterTruthy(tickerIndex, mustHaveTickers) ==
    SelectSeq(mustHaveTickers,
              LAMBDA t : t \in DOMAIN tickerIndex /\ tickerIndex[t] # 0)

\* validMustHave = mustHaveTickers.filter(t => tickerIndex[t] !== undefined)

FilterValid(tickerIndex, mustHaveTickers) ==
    SelectSeq(mustHaveTickers, LAMBDA t : t \in DOMAIN tickerIndex)

\* A plausible slip: the correlation is compared without Math.abs.
QualifiesNoAbs(matrix, i, j, threshold) == matrix[i][j] >= threshold

\* The edge test of the adjacency loop: Math.abs(matrix[i][j]) >= threshold
Qualifies(matrix, i, j, threshold) == Abs(matrix[i][j]) >= threshold

\* for (i = 0; i < n; i++) for (j = i + 1; j < n; j++)
\*     if (qualifies) { adj[i].push(j); adj[j].push(i); }
RECURSIVE AdjLoop(_, _, _, _, _, _)
AdjLoop(matrix, n, threshold, i, j, adj) ==
    IF i >= n THEN adj
    ELSE IF j >= n THEN AdjLoop(matrix, n, threshold, i + 1, i + 2, adj)
    ELSE AdjLoop(matrix, n, threshold, i, j + 1,
                 IF Qualifies(matrix, i, j, threshold)
                 THEN [adj EXCEPT ![i] = Append(@, j), ![j] = Append(@, i)]
                 ELSE adj)

\* A plausible slip: the edge is pushed on one endpoint only.
RECURSIVE AdjLoopOneWay(_, _, _, _, _, _)
AdjLoopOneWay(matrix, n, threshold, i, j, adj) ==
    IF i >= n THEN adj
    ELSE IF j >= n THEN AdjLoopOneWay(matrix, n, threshold, i + 1, i + 2, adj)
    ELSE AdjLoopOneWay(matrix, n, threshold, i, j + 1,
                 IF Qualifies(matrix, i, j, threshold)
                 THEN [adj EXCEPT ![i] = Append(@, j)]
                 ELSE adj)

BuildAdjOneWay(matrix, n, threshold) ==
    AdjLoopOneWay(matrix, n, threshold, 0, 1, [k \in 0..(n - 1) |-> <<>>])

\* const adj = new Array(n).fill(null).map(() => []); then the double loop.
BuildAdj(matrix, n, threshold) ==
    AdjLoop(matrix, n, threshold, 0, 1, [k \in 0..(n - 1) |-> <<>>])

\* The seed traversal's inner loop over adj[current]:
\*     if (!visited.has(neighbor)) { visited.add(neighbor); queue.push(neighbor); }
RECURSIVE SeedNeighbors(_, _, _, _)
SeedNeighbors(nbrs, k, visited, queue) ==
    IF k > Len(nbrs) THEN [visited |-> visited, queue |-> queue]
    ELSE IF Includes(visited, nbrs[k])
         THEN SeedNeighbors(nbrs, k + 1, visited, queue)
         ELSE SeedNeighbors(nbrs, k + 1, Append(visited, nbrs[k]),
                            Append(queue, nbrs[k]))

\* while (queue.length > 0) { current = queue.shift(); ... }
\* dequeued logs every node taken off the queue, in order.
RECURSIVE SeedBFS(_, _, _, _)
SeedBFS(adj, queue, visited, dequeued) ==
    IF queue = <<>> THEN [visited |-> visited, dequeued |-> dequeued]
    ELSE LET current == Head(queue)
             step    == SeedNeighbors(adj[current], 1, visited, Tail(queue))
         IN  SeedBFS(adj, step.queue, step.visited, Append(dequeued, current))

\* for (const idx of visited) reachable.add(idx)
RECURSIVE AddAll(_, _, _)
AddAll(reachable, visited, k) ==
    IF k > Len(visited) THEN reachable
    ELSE AddAll(IF Includes(reachable, visited[k]) THEN reachable
                ELSE Append(reachable, visited[k]),
                visited, k + 1)

\* A plausible slip: visited.add(startIdx) is forgotten.
RECURSIVE SeedLoopNoStart(_, _, _, _, _, _)
SeedLoopNoStart(adj, tickerIndex, validMustHave, k, reachable, dequeued) ==
    IF k > Len(validMustHave)
    THEN [reachable |-> reachable, dequeued |-> dequeued]
    ELSE LET startIdx == tickerIndex[validMustHave[k]]
         IN  IF Includes(reachable, startIdx)
             THEN SeedLoopNoStart(adj, tickerIndex, validMustHave, k + 1,
                                  reachable, dequeued)
             ELSE LET bfs == SeedBFS(adj, <<startIdx>>, <<>>, <<>>)
                  IN  SeedLoopNoStart(adj, tickerIndex, validMustHave, k + 1,
                                      AddAll(reachable, bfs.visited, 1),
                                      dequeued \o bfs.dequeued)

\* for (const ticker of validMustHave) { ... }: the reachable Set and the
\* log of dequeued nodes after the seeds from position k on.
RECURSIVE SeedLoop(_, _, _, _, _, _)
SeedLoop(adj, tickerIndex, validMustHave, k, reachable, dequeued) ==
    IF k > Len(validMustHave)
    THEN [reachable |-> reachable, dequeued |-> dequeued]
    ELSE LET startIdx == tickerIndex[validMustHave[k]]
         IN  IF Includes(reachable, startIdx)
             THEN SeedLoop(adj, tickerIndex, validMustHave, k + 1,
                           reachable, dequeued)
             ELSE LET bfs == SeedBFS(adj, <<startIdx>>, <<startIdx>>, <<>>)
                  IN  SeedLoop(adj, tickerIndex, validMustHave, k + 1,
                               AddAll(reachable, bfs.visited, 1),
                               dequeued \o bfs.dequeued)

\* Array.prototype.sort() without a comparator on ticker strings: ascending
\* lexical order (insertion of each element into the sorted prefix).
RECURSIVE InsertAsc(_, _)
InsertAsc(sorted, x) ==
    IF sorted = <<>> THEN <<x>>
    ELSE IF x < Head(sorted) THEN <<x>> \o sorted
         ELSE <<Head(sorted)>> \o InsertAsc(Tail(sorted), x)

RECURSIVE SortLoop(_, _, _)
SortLoop(s, k, sorted) ==
    IF k > Len(s) THEN sorted ELSE SortLoop(s, k + 1, InsertAsc(sorted, s[k]))

\* A plausible slip: the list is left in insertion order.
SortAscMissing(s) == s

SortAsc(s) == SortLoop(s, 1, <<>>)

\* The component scan's inner loop over adj[current]:
\*     if (componentOf[neighbor] === -1) { componentOf[neighbor] = componentId;
\*                                         queue.push(neighbor); }
RECURSIVE CompNeighbors(_, _, _, _, _)
CompNeighbors(nbrs, k, componentOf, componentId, queue) ==
    IF k > Len(nbrs) THEN [componentOf |-> componentOf, queue |-> queue]
    ELSE IF componentOf[nbrs[k]] = -1
         THEN CompNeighbors(nbrs, k + 1,
                            [componentOf EXCEPT ![nbrs[k]] = componentId],
                            componentId, Append(queue, nbrs[k]))
         ELSE CompNeighbors(nbrs, k + 1, componentOf, componentId, queue)

\* A plausible slip: queue.pop() in place of queue.shift(), a depth-first
\* traversal.
RECURSIVE CompBFSStack(_, _, _, _, _)
CompBFSStack(adj, queue, componentOf, componentId, comp) ==
    IF queue = <<>> THEN [componentOf |-> componentOf, comp |-> comp]
    ELSE LET current == queue[Len(queue)]
             step    == CompNeighbors(adj[current], 1, componentOf, componentId,
                                      SubSeq(queue, 1, Len(queue) - 1))
         IN  CompBFSStack(adj, step.queue, step.componentOf, componentId,
                          Append(comp, current))

\* while (queue.length > 0) { current = queue.shift(); comp.push(current); ... }
RECURSIVE CompBFS(_, _, _, _, _)
CompBFS(adj, queue, componentOf, componentId, comp) ==
    IF queue = <<>> THEN [componentOf |-> componentOf, comp |-> comp]
    ELSE LET current == Head(queue)
             step    == CompNeighbors(adj[current], 1, componentOf, componentId,
                                      Tail(queue))
         IN  CompBFS(adj, step.queue, step.componentOf, componentId,
                     Append(comp, current))

\* A plausible slip: only the first member is tested for a must-have ticker.
MakeComponentFirstOnly(componentId, comp, tickers, validMustHave) ==
    [ id               |-> componentId,
      indices          |-> comp,
      tickers          |-> TickersOf(tickers, comp),
      size             |-> Len(comp),
      containsMustHave |-> Includes(validMustHave, tickers[comp[1]]) ]

\* The object pushed onto components for one traversal.
MakeComponent(componentId, comp, tickers, validMustHave) ==
    [ id               |-> componentId,
      indices          |-> comp,
      tickers          |-> TickersOf(tickers, comp),
      size             |-> Len(comp),
      containsMustHave |-> \E k \in 1..Len(comp) :
                               Includes(validMustHave, tickers[comp[k]]) ]

\* if (adj[i].length === 0) continue;
SkipNever(adj, i) == FALSE

SkipIsolated(adj, i) == Len(adj[i]) = 0

\* for (let i = 0; i < n; i++) { if (componentOf[i] !== -1) continue;
\*                               if (adj[i].length === 0) continue; ... }
RECURSIVE ComponentScan(_, _, _, _, _, _, _, _)
ComponentScan(adj, n, tickers, validMustHave, i, componentOf, componentId, components) ==
    IF i >= n THEN components
    ELSE IF componentOf[i] # -1 \/ SkipIsolated(adj, i)
         THEN ComponentScan(adj, n, tickers, validMustHave, i + 1, componentOf,
                            componentId, components)
         ELSE LET bfs == CompBFS(adj, <<i>>, [componentOf EXCEPT ![i] = componentId],
                                 componentId, <<>>)
              IN  ComponentScan(adj, n, tickers, validMustHave, i + 1,
                                bfs.componentOf, componentId + 1,
                                Append(components,
                                       MakeComponent(componentId, bfs.comp,
                                                     tickers, validMustHave)))

\* Number(boolean) as used by b.containsMustHave - a.containsMustHave
BoolNum(b) == IF b THEN 1 ELSE 0

\* A plausible slip: the size difference is taken the other way round.
CompareAscending(a, b) ==
    IF a.containsMustHave # b.containsMustHave
    THEN BoolNum(b.containsMustHave) - BoolNum(a.containsMustHave)
    ELSE a.size - b.size

\* The comparator handed to components.sort.
CompareComponents(a, b) ==
    IF a.containsMustHave # b.containsMustHave
    THEN BoolNum(b.containsMustHave) - BoolNum(a.containsMustHave)
    ELSE b.size - a.size

\* A plausible slip (an unstable sort): an element is inserted before the
\* elements it compares equal to.
RECURSIVE InsertUnstable(_, _)
InsertUnstable(sorted, x) ==
    IF sorted = <<>> THEN <<x>>
    ELSE IF CompareComponents(Head(sorted), x) >= 0 THEN <<x>> \o sorted
         ELSE <<Head(sorted)>> \o InsertUnstable(Tail(sorted), x)

\* Array.prototype.sort with a comparator: a stable sort (ECMAScript 2019),
\* each element inserted behind every element that does not compare greater.
RECURSIVE InsertStable(_, _)
InsertStable(sorted, x) ==
    IF sorted = <<>> THEN <<x>>
    ELSE IF CompareComponents(Head(sorted), x) > 0 THEN <<x>> \o sorted
         ELSE <<Head(sorted)>> \o InsertStable(Tail(sorted), x)

RECURSIVE SortComponentsLoop(_, _, _)
SortComponentsLoop(s, k, sorted) ==
    IF k > Len(s) THEN sorted
    ELSE SortComponentsLoop(s, k + 1, InsertStable(sorted, s[k]))

SortComponents(components) == SortComponentsLoop(components, 1, <<>>)

\* The early return of detectCluster, with what the call built on the way.
NoSeedRun ==
    [ ret          |-> [ clusterTickers |-> <<>>,
                         components     |-> <<>>,
                         error          |-> "None of the must-have tickers found in data" ],
      adjBuilt     |-> FALSE,
      adj          |-> <<>>,
      seedDequeued |-> <<>>,
      scanDequeued |-> <<>> ]

\* detectCluster(corrData, mustHaveTickers, threshold): ret is the returned
\* object; adjBuilt, adj, seedDequeued and scanDequeued record whether the
\* call built an adjacency list, that list, and the nodes its two traversals
\* took off their queues.
detectClusterRun(corrData, mustHaveTickers, threshold) ==
    LET tickers       == corrData.tickers
        matrix        == corrData.matrix
        tickerIndex   == corrData.tickerIndex
        n             == corrData.nTickers
        validMustHave == FilterValid(tickerIndex, mustHaveTickers)
    IN  IF Len(validMustHave) = 0 THEN NoSeedRun
        ELSE
        LET adj        == BuildAdj(matrix, n, threshold)
            seeds      == SeedLoop(adj, tickerIndex, validMustHave, 1, <<>>, <<>>)
            reachable  == seeds.reachable
            clusterTickers ==
                SortAsc(TickersOf(tickers, reachable))
            unsorted   == ComponentScan(adj, n, tickers, validMustHave, 0,
                                        [k \in 0..(n - 1) |-> -1], 0, <<>>)
            components == SortComponents(unsorted)
        IN  [ ret |-> [ clusterTickers      |-> clusterTickers,
                        components          |-> components,
                        validMustHave       |-> validMustHave,
                        threshold           |-> threshold,
                        totalNodes          |-> n,
                        nodesAboveThreshold |-> Len(reachable),
                        error               |-> Undefined ],
              adjBuilt     |-> TRUE,
              adj          |-> adj,
              seedDequeued |-> seeds.dequeued,
              scanDequeued |->
                  \* every dequeued node is pushed onto its comp, in order
                  LET RECURSIVE Flat(_, _)
                      Flat(cs, k) == IF k > Len(cs) THEN <<>>
                                     ELSE cs[k].indices \o Flat(cs, k + 1)
                  IN  Flat(unsorted, 1) ]

detectCluster(corrData, mustHaveTickers, threshold) ==
    detectClusterRun(corrData, mustHaveTickers, threshold).ret

\* ------------------------------------------------------- latency samplers

\* The brush samplers of the combined page and of the prism page.
SamplerKinds == {"MatrixEnriched", "PrismDynamic", "PrismMulti", "PrismPage"}

\* The samplers of the standalone matrix page: measureHoverLatency and
\* measureBrushLatency.
MatrixPageKinds == {"MatrixHover", "MatrixBrush"}

AllKinds == SamplerKinds \cup MatrixPageKinds

\* const samples = Math.min(cap, n): the cap of each sampler.
SamplesCap(k) ==
    CASE k = "MatrixEnriched" -> 60
      [] k = "PrismDynamic"   -> 50
      [] k = "PrismMulti"     -> 50
      [] k = "PrismPage"      -> 100
      [] k = "MatrixHover"    -> 200
      [] k = "MatrixBrush"    -> 100

\* A plausible slip: the cap is forgotten.
SamplesOfUncapped(k, tot, n) == IF k = "MatrixHover" THEN tot ELSE n

\* const samples = Math.min(cap, n); measureHoverLatency samples
\* Math.min(200, total) cells, whatever its n.
SamplesOf(k, tot, n) ==
    IF k = "MatrixHover" THEN Min(SamplesCap(k), tot) ELSE Min(SamplesCap(k), n)

\* A plausible slip: the list is not sorted before the percentiles are read.
SortNumericMissing(s) == s

\* latencies.sort((a, b) => a - b): the k-th element of the result is the
\* value with fewer than k smaller elements and at least k elements not
\* larger.
SortNumeric(s) ==
    [k \in 1..Len(s) |->
        CHOOSE v \in Range(s) :
            /\ Cardinality({j \in 1..Len(s) : s[j] < v}) < k
            /\ Cardinality({j \in 1..Len(s) : s[j] <= v}) >= k]

\* JavaScript values a statistics field can hold: a finite number, undefined
\* (an out-of-range array read) and Infinity (a division by zero).
Num(v) == [tag |-> "number", val |-> v]

UndefinedValue == [tag |-> "undefined", val |-> 0]

InfinityValue == [tag |-> "Infinity", val |-> 0]

\* arr[idx] of a JavaScript array held as a sequence: undefined out of range.
At(s, idx) == IF idx >= 0 /\ idx < Len(s) THEN Num(s[idx + 1]) ELSE UndefinedValue

\* A plausible slip: Math.floor in place of Math.round.
RoundDivFloor(x, y) == x \div y

\* Math.round(x / y) for x >= 0, y > 0 (halves round up).
RoundDiv(x, y) == (2 * x + y) \div (2 * y)

\* stamps.length > 1 ? 1000 / ((last - first) / (length - 1)) : 0, rounded by
\* Math.round; a zero span divides by zero and yields Infinity.
FpsOf(stamps) ==
    IF Len(stamps) > 1
    THEN LET span == stamps[Len(stamps)] - stamps[1]
         IN  IF span = 0 THEN InfinityValue
             ELSE Num(RoundDiv(1000 * (Len(stamps) - 1), span))
    ELSE Num(0)

\* A plausible slip: the percentile indices are rounded, not floored.
StatsRounded(latencies, stamps) ==
    LET sorted == SortNumeric(latencies)
    IN  [ p50 |-> At(sorted, (Len(sorted) * 50 + 50) \div 100),
          p95 |-> At(sorted, (Len(sorted) * 95 + 50) \div 100),
          fps |-> FpsOf(stamps) ]

\* The record next() resolves the promise with once i >= samples.
Stats(latencies, stamps) ==
    LET sorted == SortNumeric(latencies)
    IN  [ p50 |-> At(sorted, (Len(sorted) * 50) \div 100),
          p95 |-> At(sorted, (Len(sorted) * 95) \div 100),
          fps |-> FpsOf(stamps) ]

\* resolve({ p50: 0, p95: 0, fps: 0 })
ZeroStats == [p50 |-> Num(0), p95 |-> Num(0), fps |-> Num(0)]

\* What next() resolves the promise with: measureHoverLatency keeps no frame
\* timestamps and reports no fps.
Result(k, latencies, stamps) ==
    IF k = "MatrixHover"
    THEN [ p50 |-> Stats(latencies, stamps).p50,
           p95 |-> Stats(latencies, stamps).p95 ]
    ELSE Stats(latencies, stamps)

\* What a sampler resolves with on an empty selection: the samplers of
\* matrix.js call resolve(0), the others resolve({ p50: 0, p95: 0, fps: 0 }).
EmptyResult(k) == IF k \in MatrixPageKinds THEN Num(0) ELSE ZeroStats

\* v[name] of a JavaScript value: a property a value does not have (any
\* property of a number) reads as undefined.
Prop(v, name) == IF name \in DOMAIN v THEN v[name] ELSE UndefinedValue

\* v.toFixed(2) returns a string unless v is undefined, where it throws a
\* TypeError.
ToFixedOk(v) == v.tag # "undefined"

\* The template literal of runBenchmark's report evaluates without a throw.
ReportFormats(hover, brush) ==
    /\ ToFixedOk(Prop(hover, "p50"))
    /\ ToFixedOk(Prop(hover, "p95"))
    /\ ToFixedOk(Prop(brush, "p50"))
    /\ ToFixedOk(Prop(brush, "p95"))

\* ------------------------------------------------------------------- state

VARIABLES
    corrData,      \* the correlation data of the year under detection
    callArgs,      \* the arguments of the latest detectCluster call
    run,           \* what the latest detectCluster call returned and built
    pc,            \* the sampler run: "idle", "running" or "done"
    kind,          \* which sampler is running
    total,         \* rects.size() of the target selection
    arg,           \* the n / T argument of the sampler
    samples,       \* Math.min(cap, n)
    i,             \* the trial counter of next()
    latencies,     \* the latency list
    stamps,        \* the frame-timestamp list
    rafQueue,      \* requested frame callbacks, each holding its trial's t0
    timers,        \* pending setTimeout(next, 0) timers
    clock,         \* performance.now()
    resolved,      \* the values the promise's resolve was called with
    triggers,      \* how often the trigger (rects.attr) was invoked
    rafRequests,   \* how often requestAnimationFrame was called
    timerRequests, \* how often setTimeout was called
    target,        \* the row / e value highlighted by the latest trigger (-1: none)
    t0s,           \* the t0 of every trial of the run, in trigger order
    bench,         \* runBenchmark: "idle", "returned", "hover", "brush",
                   \* "reported" or "fault" (an uncaught TypeError)
    benchN,        \* renderResult.N
    hoverStats,    \* what await measureHoverLatency(...) gave
    brushStats,    \* what await measureBrushLatency(...) gave
    mustHaveAfter, \* the caller's must-have array after the detectCluster call
    phase,         \* state.phase
    selectedYear,  \* state.selectedYear (0: null)
    clusterTickers,   \* state.clusterTickers
    matrixResult,     \* state.matrixResult
    matrixContainer,  \* what #matrix-container holds
    prismContainer,   \* whether #prism-d3 holds a rendered prism
    knowledgeContainer, \* whether #knowledge-container holds a graph
    networkRows,   \* the year rows of #network-container, each with the
                   \* result its click handler captured
    nvSelectedYear,   \* NetworkView's selectedYear (0: null)
    manifest,      \* NetworkView's manifest is loaded
    metadataCache, \* KnowledgeView's metadataCache is loaded
    returnsData,   \* PrismDynamic's returnsData is loaded
    correlationData,  \* the years NetworkView's correlationData holds
    clusterResults,   \* NetworkView's clusterResults
    initPending,   \* the fetches of init() still in flight
    gens,          \* the generateClusters calls awaiting a fetch
    lastReturn,    \* what the latest generateClusters call resolved with
    labelFetching, \* onMatrixLabelClick calls awaiting the metadata fetch
    cellFetching,  \* onMatrixCellClick calls awaiting the returns fetch
    cellTimers,    \* onMatrixCellClick calls awaiting their timers
    matrixRuns,    \* sampler runs in flight against #matrix-container
    prismRuns,     \* sampler runs in flight against #prism-d3
    benchEnabled,  \* the benchmark button is enabled
    generated,     \* the user's clicks on Generate so far
    clicks         \* the user's clicks so far

clusterVars == <<corrData, callArgs, run, mustHaveAfter>>

samplerVars == <<pc, kind, total, arg, samples, i, latencies, stamps, rafQueue,
                 timers, clock, resolved, triggers, rafRequests, timerRequests,
                 target, t0s>>

benchVars == <<bench, benchN, hoverStats, brushStats>>

pageVars == <<phase, selectedYear, clusterTickers, matrixResult, matrixContainer,
              prismContainer, knowledgeContainer, networkRows>>

loaderVars == <<nvSelectedYear, manifest, metadataCache, returnsData,
                correlationData, clusterResults>>

taskVars == <<initPending, gens, lastReturn, labelFetching, cellFetching,
              cellTimers, matrixRuns, prismRuns, benchEnabled, generated,
              clicks>>

appVars == <<pageVars, loaderVars, taskVars>>

vars == <<clusterVars, samplerVars, benchVars, appVars>>

\* ------------------------------------------------------------------ inputs

Nodes(n) == 0..(n - 1)

\* The unordered pairs (i, j), i < j, of the adjacency loop.
Pairs(n) == {p \in Nodes(n) \X Nodes(n) : p[1] < p[2]}

\* The ticker sequence of a matrix of n tickers: in reverse lexical order, so
\* that the order of the indices is not the order of the tickers.
TickerOrders(n) == { [k \in Nodes(n) |-> n - k] }

\* A symmetric correlation matrix with 1.0 on the diagonal, a strong
\* correlation (0.6 or -0.9) on the pairs of strong and a weak one (-0.3 or
\* 0.2) elsewhere.
MatrixOf(n, strong) ==
    [a \in Nodes(n) |-> [b \in Nodes(n) |->
        IF a = b THEN 10
        ELSE LET p == <<Min(a, b), a + b - Min(a, b)>>
             IN  IF p \in strong
                 THEN (IF (a + b) % 2 = 1 THEN -9 ELSE 6)
                 ELSE (IF (a + b) % 2 = 1 THEN 2 ELSE -3)]]

CorrDataSet ==
    UNION { { MakeCorrData(n, t, MatrixOf(n, strong)) :
                t \in TickerOrders(n),
                strong \in {e \in SUBSET Pairs(n) : Cardinality(e) <= MaxStrong} } :
            n \in 1..MaxN }

\* Requested identifiers: the lexically smallest ticker (the last index), the
\* largest ticker of the largest matrix (its index 0, absent from a smaller
\* matrix) and one that no matrix holds.
TickerPool == {1, MaxN, MaxN + 1}

MustHaveLists == UNION { [1..k -> TickerPool] : k \in 1..MaxMH }

\* 0.5 (inside [0, 1]) and the degenerate 1.1.
Thresholds == {5, 11}

\* ------------------------------------------------------------------ actions

\* No detectCluster call yet.
NoCall == [mustHaveTickers |-> <<>>, threshold |-> 0]

NoRun ==
    [ ret          |-> [ clusterTickers |-> <<>>,
                         components     |-> <<>>,
                         error          |-> Undefined ],
      adjBuilt     |-> FALSE,
      adj          |-> <<>>,
      seedDequeued |-> <<>>,
      scanDequeued |-> <<>> ]

ClusterIdle ==
    /\ callArgs = NoCall
    /\ run = NoRun
    /\ mustHaveAfter = <<>>

SamplerIdle ==
    /\ pc = "idle"
    /\ kind = Undefined
    /\ total = 0
    /\ arg = 0
    /\ samples = 0
    /\ i = 0
    /\ latencies = <<>>
    /\ stamps = <<>>
    /\ rafQueue = <<>>
    /\ timers = 0
    /\ clock = 0
    /\ resolved = <<>>
    /\ triggers = 0
    /\ rafRequests = 0
    /\ timerRequests = 0
    /\ target = -1
    /\ t0s = <<>>

BenchIdle ==
    /\ bench = "idle"
    /\ benchN = 0
    /\ hoverStats = UndefinedValue
    /\ brushStats = UndefinedValue

\* A plausible slip: the must-have list is sorted in place before seeding.
ArgumentsAfterSortedInPlace(cd, mh) ==
    [corrData |-> cd, mustHaveTickers |-> SortAsc(mh)]

\* What detectCluster leaves in its arguments: it assigns to no field of
\* corrData and to no element of mustHaveTickers (filter, map and the spread
\* copy build new arrays; the sorts act on arrays of its own).
ArgumentsAfter(cd, mh) ==
    [corrData |-> cd, mustHaveTickers |-> mh]

\* generateClusters' call detectCluster(corrData, mustHaveTickers, threshold)
\* (one call per behaviour).
DetectCluster ==
    /\ callArgs = NoCall
    /\ \E mh \in MustHaveLists, th \in Thresholds :
          /\ callArgs' = [mustHaveTickers |-> mh, threshold |-> th]
          /\ run' = detectClusterRun(corrData, mh, th)
          /\ corrData' = ArgumentsAfter(corrData, mh).corrData
          /\ mustHaveAfter' = ArgumentsAfter(corrData, mh).mustHaveTickers
    /\ UNCHANGED <<samplerVars, benchVars, appVars>>

\* Math.floor(Math.random() * n): its two extreme outcomes.
RandomIndex(n) == {0, n - 1}

\* What a trial highlights: the row i % n (the matrix brush samplers), a
\* random e value below T (the prism samplers) or a random cell below total
\* (measureHoverLatency).
Targets(k, n, tot, ii) ==
    IF k \in {"MatrixEnriched", "MatrixBrush"} THEN {ii % n}
    ELSE IF k = "MatrixHover" THEN RandomIndex(tot)
    ELSE RandomIndex(n)

\* A plausible slip: setTimeout(next, 0) is written after the
\* requestAnimationFrame call instead of inside its callback.
nextEager(k, n, tot, ii, ss, now, tm, lat, st, tz) ==
    IF ii >= ss
    THEN /\ latencies' = SortNumeric(lat)
         /\ resolved' = Append(resolved, Result(k, lat, st))
         /\ pc' = "done"
         /\ timers' = tm
         /\ t0s' = tz
         /\ UNCHANGED <<rafQueue, triggers, rafRequests, timerRequests, target>>
    ELSE /\ \E e \in Targets(k, n, tot, ii) : target' = e
         /\ triggers' = triggers + 1
         /\ rafQueue' = Append(rafQueue, now)
         /\ t0s' = Append(tz, now)
         /\ rafRequests' = rafRequests + 1
         /\ pc' = "running"
         /\ timers' = tm + 1
         /\ timerRequests' = timerRequests + 1
         /\ latencies' = lat
         /\ UNCHANGED resolved

\* function next(), run at time now with trial counter ii, samples ss and the
\* lists lat (latencies), st (stamps) and tz (the t0 of each trial so far); tm
\* is the number of timers pending when it runs (it schedules none).
next(k, n, tot, ii, ss, now, tm, lat, st, tz) ==
    IF ii >= ss
    THEN /\ latencies' = SortNumeric(lat)
         /\ resolved' = Append(resolved, Result(k, lat, st))
         /\ pc' = "done"
         /\ timers' = tm
         /\ t0s' = tz
         /\ UNCHANGED <<rafQueue, triggers, rafRequests, timerRequests, target>>
    ELSE /\ \E e \in Targets(k, n, tot, ii) : target' = e
         /\ triggers' = triggers + 1
         /\ rafQueue' = Append(rafQueue, now)
         /\ t0s' = Append(tz, now)
         /\ rafRequests' = rafRequests + 1
         /\ pc' = "running"
         /\ timers' = tm
         /\ latencies' = lat
         /\ UNCHANGED <<resolved, timerRequests>>

\* A plausible slip: the guard for an empty selection is missing.
EmptyTargetNever(tot) == FALSE

\* rects.size() === 0
EmptyTarget(tot) == tot = 0

\* measureBrush(containerId, n) / measurePrismBrushLatency(svg, T) /
\* measureHoverLatency(svg, n) / measureBrushLatency(svg, n): the promise
\* executor, with its fresh lists and counter, up to and including its first
\* call of next().
MeasureBrush(k, tot, n) ==
    /\ kind' = k
    /\ total' = tot
    /\ arg' = n
    /\ i' = 0
    /\ stamps' = <<>>
    /\ IF EmptyTarget(tot)
       THEN /\ resolved' = Append(resolved, EmptyResult(k))
            /\ pc' = "done"
            /\ samples' = 0
            /\ latencies' = <<>>
            /\ t0s' = <<>>
            /\ UNCHANGED <<rafQueue, timers, triggers, rafRequests,
                           timerRequests, target>>
       ELSE /\ samples' = SamplesOf(k, tot, n)
            /\ next(k, n, tot, 0, SamplesOf(k, tot, n), clock, timers,
                    <<>>, <<>>, <<>>)
    /\ UNCHANGED <<clock, clusterVars, appVars>>

\* The time (ms) a step of a run may take: runs longer than MaxTrials trials
\* are followed with one tick per step.
Ticks == IF samples > MaxTrials THEN {1} ELSE 0..MaxTick

\* A plausible slip: the callback forgets to schedule the next trial.
FrameCallbackNoTimer ==
    /\ rafQueue # <<>>
    /\ \E d \in Ticks :
          LET t0 == Head(rafQueue)
              t1 == clock + d
          IN  /\ clock' = t1
              /\ latencies' = Append(latencies, t1 - t0)
              /\ stamps' = IF kind = "MatrixHover" THEN stamps
                           ELSE Append(stamps, t1)
    /\ rafQueue' = Tail(rafQueue)
    /\ i' = i + 1
    /\ UNCHANGED <<pc, kind, total, arg, samples, resolved, triggers, timers,
                   timerRequests, rafRequests, target, t0s, clusterVars,
                   benchVars, appVars>>

\* The requestAnimationFrame callback of a trial (measureHoverLatency keeps
\* no frame timestamps).
FrameCallback ==
    /\ rafQueue # <<>>
    /\ \E d \in Ticks :
          LET t0 == Head(rafQueue)
              t1 == clock + d
          IN  /\ clock' = t1
              /\ latencies' = Append(latencies, t1 - t0)
              /\ stamps' = IF kind = "MatrixHover" THEN stamps
                           ELSE Append(stamps, t1)
    /\ rafQueue' = Tail(rafQueue)
    /\ i' = i + 1
    /\ timers' = timers + 1
    /\ timerRequests' = timerRequests + 1
    /\ UNCHANGED <<pc, kind, total, arg, samples, resolved, triggers,
                   rafRequests, target, t0s, clusterVars, benchVars,
                   appVars>>

\* A setTimeout(next, 0) timer fires.
TimerFires ==
    /\ timers > 0
    /\ \E d \in Ticks :
          /\ clock' = clock + d
          /\ next(kind, arg, total, i, samples, clock + d, timers - 1,
                  latencies, stamps, t0s)
    /\ UNCHANGED <<kind, total, arg, samples, i, stamps, clusterVars,
                   benchVars, appVars>>

\* runBenchmark up to its call of measureHoverLatency: loadAndRender has
\* rendered nn * nn cells, or could not load the data and runBenchmark
\* returns.
RunBenchmark ==
    /\ bench = "idle"
    /\ pc = "idle"
    /\ \E nn \in 0..MaxBenchN, loaded \in BOOLEAN :
          IF loaded
          THEN /\ benchN' = nn
               /\ bench' = "hover"
               /\ MeasureBrush("MatrixHover", nn * nn, nn)
               /\ UNCHANGED <<hoverStats, brushStats>>
          ELSE /\ bench' = "returned"
               /\ UNCHANGED <<benchN, hoverStats, brushStats, samplerVars,
                              clusterVars, appVars>>

\* runBenchmark resumes from "await measureHoverLatency(...)" and calls
\* measureBrushLatency.
HoverResolved ==
    /\ bench = "hover"
    /\ pc = "done"
    /\ hoverStats' = resolved[Len(resolved)]
    /\ bench' = "brush"
    /\ MeasureBrush("MatrixBrush", total, benchN)
    /\ UNCHANGED <<benchN, brushStats>>

\* runBenchmark resumes from "await measureBrushLatency(...)" and builds its
\* report; a TypeError thrown by the template literal rejects the promise of
\* runBenchmark, which nothing handles.
BrushResolved ==
    /\ bench = "brush"
    /\ pc = "done"
    /\ brushStats' = resolved[Len(resolved)]
    /\ bench' = IF ReportFormats(hoverStats, resolved[Len(resolved)])
                THEN "reported" ELSE "fault"
    /\ UNCHANGED <<benchN, hoverStats, samplerVars, clusterVars, appVars>>

\* --------------------------------------------------- the combined page: data

\* manifest.years
ManifestYears == [k \in 1..MaxYears |-> k]

Years == Range(ManifestYears)

\* The correlation file of a year: y + 1 tickers in reverse lexical order,
\* the last two of them (tickers 2 and 1) strongly correlated.
CorrFile(y) ==
    MakeCorrData(y + 1, [k \in Nodes(y + 1) |-> y + 1 - k],
                 MatrixOf(y + 1, {<<y - 1, y>>}))

\* What the user enters before a click on Generate: a ticker every year
\* holds with the threshold 0.5, or a ticker only the last year holds with
\* the threshold 1.1 (an empty must-have input makes onGenerateClusters
\* return at once).
GenInputs ==
    { [mustHave |-> <<1>>, threshold |-> 5],
      [mustHave |-> <<MaxYears + 1>>, threshold |-> 11] }

\* clusterResults[year] === undefined
Absent == [clusterTickers |-> <<>>, components |-> <<>>, error |-> "absent"]

\* clusterResults = {}
EmptyResults == [y \in Years |-> Absent]

\* state.matrixResult === null
NoMatrixResult == [n |-> -1, tickers |-> <<>>]

\* container.innerHTML = ''
EmptyContainer ==
    [year |-> 0, tickers |-> <<>>, matrix |-> <<>>, fallback |-> FALSE]

\* No generateClusters call has resolved.
NoReturn ==
    [call |-> 0, mustHave |-> <<>>, threshold |-> 0, loaded |-> {},
     results |-> EmptyResults]

Resources == {"manifest", "metadata", "returns"}

\* A plausible slip: the tickers are taken for positions of the matrix.
subsetMatrixByPosition(fullData, subsetTickers) ==
    LET indices == [k \in 1..Len(subsetTickers) |-> k - 1]
    IN  [ tickers  |-> subsetTickers,
          matrix   |-> [r \in 1..Len(indices) |-> [c \in 1..Len(indices) |->
                           fullData.matrix[indices[r]][indices[c]]]],
          fallback |-> FALSE ]

\* subsetMatrix(fullData, subsetTickers): fallback tells whether a ticker was
\* missing from tickerIndex and index 0 taken for it.
subsetMatrix(fullData, subsetTickers) ==
    LET tickerIndex == fullData.tickerIndex
        indices == [k \in 1..Len(subsetTickers) |->
                       IF subsetTickers[k] \in DOMAIN tickerIndex
                       THEN tickerIndex[subsetTickers[k]] ELSE 0]
    IN  [ tickers  |-> subsetTickers,
          matrix   |-> [r \in 1..Len(indices) |-> [c \in 1..Len(indices) |->
                           fullData.matrix[indices[r]][indices[c]]]],
          fallback |-> \E k \in 1..Len(subsetTickers) :
                           subsetTickers[k] \notin DOMAIN tickerIndex ]

\* The for loop of generateClusters from the k-th year of the manifest on,
\* through the years whose data loadCorrelationForYear finds cached (cd): the
\* year it stops at to fetch (beyond the last: the loop is over),
\* clusterResults then (cr) and the years whose data the call has loaded.
RECURSIVE GenLoop(_, _, _, _, _, _)
GenLoop(mh, th, k, cr, cd, loaded) ==
    IF k > Len(ManifestYears)
    THEN [at |-> k, cr |-> cr, loaded |-> loaded]
    ELSE LET year == ManifestYears[k]
         IN  IF year \in cd
             THEN GenLoop(mh, th, k + 1,
                          [cr EXCEPT ![year] = detectCluster(CorrFile(year), mh, th)],
                          cd, loaded \cup {year})
             ELSE [at |-> k, cr |-> cr, loaded |-> loaded]

\* NetworkView.render: one row per year of clusterResults (cr) that has
\* correlation data (cd), its click handler holding the year's result.
RenderRows(cr, cd) ==
    LET Shown(y) == cr[y] # Absent /\ y \in cd
        shown == SelectSeq(ManifestYears, Shown)
    IN  [k \in 1..Len(shown) |->
            [year |-> shown[k], clusterTickers |-> cr[shown[k]].clusterTickers]]

\* ------------------------------------------------ the combined page: actions

\* The page before DOMContentLoaded.
AppIdle ==
    /\ phase = "INIT"
    /\ selectedYear = 0
    /\ clusterTickers = <<>>
    /\ matrixResult = NoMatrixResult
    /\ matrixContainer = EmptyContainer
    /\ prismContainer = FALSE
    /\ knowledgeContainer = FALSE
    /\ networkRows = <<>>
    /\ nvSelectedYear = 0
    /\ manifest = FALSE
    /\ metadataCache = FALSE
    /\ returnsData = FALSE
    /\ correlationData = {}
    /\ clusterResults = EmptyResults
    /\ initPending = {}
    /\ gens = <<>>
    /\ lastReturn = NoReturn
    /\ labelFetching = 0
    /\ cellFetching = 0
    /\ cellTimers = 0
    /\ matrixRuns = 0
    /\ prismRuns = 0
    /\ benchEnabled = FALSE
    /\ generated = 0
    /\ clicks = 0

\* One of the three fetches of init()'s Promise.all resolves: the loader
\* fills its cache, and with the last of them init sets the phase.
InitFetchResolves ==
    /\ \E r \in initPending :
          /\ initPending' = initPending \ {r}
          /\ manifest' = (manifest \/ r = "manifest")
          /\ metadataCache' = (metadataCache \/ r = "metadata")
          /\ returnsData' = (returnsData \/ r = "returns")
          /\ phase' = IF initPending = {r} THEN "READY" ELSE phase
    /\ UNCHANGED <<selectedYear, clusterTickers, matrixResult, matrixContainer,
                   prismContainer, knowledgeContainer, networkRows,
                   nvSelectedYear, correlationData, clusterResults, gens,
                   lastReturn, labelFetching, cellFetching, cellTimers,
                   matrixRuns, prismRuns, benchEnabled, clicks, generated,
                   clusterVars, samplerVars, benchVars>>

\* generateClusters of call gen goes on from the k-th year with clusterResults
\* cr and correlationData cd, up to its next fetch; when the loop is over it
\* returns clusterResults, and onGenerateClusters renders the Network View
\* and sets the phase. others are the other calls in flight, waiting the
\* phase while this call still waits.
Continue(gen, k, cr, cd, others, waiting) ==
    LET r == GenLoop(gen.mustHave, gen.threshold, k, cr, cd, gen.loaded)
    IN  /\ correlationData' = cd
        /\ clusterResults' = r.cr
        /\ IF r.at > Len(ManifestYears)
           THEN /\ gens' = others
                /\ lastReturn' = [ call      |-> gen.call,
                                   mustHave  |-> gen.mustHave,
                                   threshold |-> gen.threshold,
                                   loaded    |-> r.loaded,
                                   results   |-> r.cr ]
                /\ networkRows' = RenderRows(r.cr, cd)
                /\ phase' = "CLUSTERS_SHOWN"
                /\ benchEnabled' = TRUE
           ELSE /\ gens' = Append(others, [gen EXCEPT !.at = r.at,
                                                      !.loaded = r.loaded])
                /\ phase' = waiting
                /\ UNCHANGED <<lastReturn, networkRows, benchEnabled>>

\* A click on Generate: onGenerateClusters up to the first fetch that
\* generateClusters awaits.
GenerateClick ==
    /\ clicks < MaxClicks
    /\ generated < MaxGenerate
    /\ clicks' = clicks + 1
    /\ generated' = generated + 1
    /\ matrixContainer' = EmptyContainer
    /\ knowledgeContainer' = FALSE
    /\ prismContainer' = FALSE
    /\ selectedYear' = 0
    /\ clusterTickers' = <<>>
    /\ \E in \in GenInputs :
          LET gen == [ call      |-> generated + 1,
                       mustHave  |-> in.mustHave,
                       threshold |-> in.threshold,
                       at        |-> 0,
                       loaded    |-> {} ]
          IN  IF manifest
              THEN Continue(gen, 1, EmptyResults, correlationData, gens,
                            "GENERATING")
              ELSE /\ gens' = Append(gens, gen)
                   /\ phase' = "GENERATING"
                   /\ UNCHANGED <<correlationData, clusterResults, lastReturn,
                                  networkRows, benchEnabled>>
    /\ UNCHANGED <<matrixResult, nvSelectedYear, manifest, metadataCache,
                   returnsData, initPending, labelFetching, cellFetching,
                   cellTimers, matrixRuns, prismRuns, clusterVars,
                   samplerVars, benchVars>>

\* The sequence s without its g-th element.
Without(s, g) == SubSeq(s, 1, g - 1) \o SubSeq(s, g + 1, Len(s))

\* How the fetch of the k-th file generateClusters asks for can end (k = 0:
\* the manifest): the server answers every request but those for the file of
\* the manifest's last year, which it may answer with an error.
Outcomes(k) == IF k = Len(ManifestYears) THEN BOOLEAN ELSE {TRUE}

\* The fetch a generateClusters call awaits resolves: the manifest, or the
\* correlation file of a year, which loads (ok) or fails.
GenFetchResolves ==
    /\ \E g \in 1..Len(gens) : \E ok \in Outcomes(gens[g].at) :
          LET gen == gens[g]
          IN  IF gen.at = 0
              THEN /\ manifest' = TRUE
                   /\ Continue(gen, 1, EmptyResults, correlationData,
                               Without(gens, g), phase)
              ELSE /\ manifest' = manifest
                   /\ LET year == ManifestYears[gen.at]
                      IN  IF ok
                          THEN Continue(
                                 [gen EXCEPT !.loaded = @ \cup {year}],
                                 gen.at + 1,
                                 [clusterResults EXCEPT ![year] =
                                     detectCluster(CorrFile(year), gen.mustHave,
                                                   gen.threshold)],
                                 correlationData \cup {year},
                                 Without(gens, g), phase)
                          ELSE Continue(gen, gen.at + 1, clusterResults,
                                        correlationData, Without(gens, g),
                                        phase)
    /\ UNCHANGED <<selectedYear, clusterTickers, matrixResult, matrixContainer,
                   prismContainer, knowledgeContainer, nvSelectedYear,
                   metadataCache, returnsData, initPending, labelFetching,
                   cellFetching, cellTimers, matrixRuns, prismRuns, clicks,
                   generated,
                   clusterVars, samplerVars, benchVars>>

\* A click on a year row of the Network View: the row's handler and
\* onYearSelected, with MatrixEnriched.render in its subsetting mode when the
\* year's correlation data is there.
YearClick ==
    /\ clicks < MaxClicks
    /\ clicks' = clicks + 1
    /\ \E r \in 1..Len(networkRows) :
          LET row == networkRows[r]
              data == subsetMatrix(CorrFile(row.year), row.clusterTickers)
          IN  /\ nvSelectedYear' = row.year
              /\ selectedYear' = row.year
              /\ clusterTickers' = row.clusterTickers
              /\ IF Len(row.clusterTickers) = 0 \/ Len(row.clusterTickers) > 500
                 THEN UNCHANGED <<matrixResult, matrixContainer, phase>>
                 ELSE /\ row.year \in correlationData
                      /\ matrixContainer' = [ year     |-> row.year,
                                              tickers  |-> data.tickers,
                                              matrix   |-> data.matrix,
                                              fallback |-> data.fallback ]
                      /\ matrixResult' = [ n       |-> Len(data.tickers),
                                           tickers |-> data.tickers ]
                      /\ phase' = "MATRIX_SHOWN"
    /\ UNCHANGED <<prismContainer, knowledgeContainer, networkRows, manifest,
                   metadataCache, returnsData, correlationData, clusterResults,
                   initPending, gens, lastReturn, labelFetching, cellFetching,
                   cellTimers, matrixRuns, prismRuns, benchEnabled,
                   generated,
                   clusterVars, samplerVars, benchVars>>

\* A click on a label of the matrix: onMatrixLabelClick up to its fetch, or
\* to its end when the metadata is cached.
LabelClick ==
    /\ clicks < MaxClicks
    /\ clicks' = clicks + 1
    /\ matrixContainer # EmptyContainer
    /\ IF metadataCache
       THEN /\ knowledgeContainer' = TRUE
            /\ UNCHANGED labelFetching
       ELSE /\ labelFetching' = labelFetching + 1
            /\ UNCHANGED knowledgeContainer
    /\ UNCHANGED <<phase, selectedYear, clusterTickers, matrixResult,
                   matrixContainer, prismContainer, networkRows, loaderVars,
                   initPending, gens, lastReturn, cellFetching, cellTimers,
                   matrixRuns, prismRuns, benchEnabled, generated,
                   clusterVars, samplerVars, benchVars>>

\* The metadata fetch of an onMatrixLabelClick call resolves, and the call
\* renders the Knowledge Graph.
LabelFetchResolves ==
    /\ labelFetching > 0
    /\ labelFetching' = labelFetching - 1
    /\ metadataCache' = TRUE
    /\ knowledgeContainer' = TRUE
    /\ UNCHANGED <<phase, selectedYear, clusterTickers, matrixResult,
                   matrixContainer, prismContainer, networkRows,
                   nvSelectedYear, manifest, returnsData, correlationData,
                   clusterResults, initPending, gens, lastReturn, cellFetching,
                   cellTimers, matrixRuns, prismRuns, benchEnabled, clicks,
                   generated,
                   clusterVars, samplerVars, benchVars>>

\* A click on a cell of the matrix: onMatrixCellClick, with its call of
\* onMatrixLabelClick, up to its returns fetch or, the returns cached, to its
\* first timer.
CellClick ==
    /\ clicks < MaxClicks
    /\ clicks' = clicks + 1
    /\ matrixContainer # EmptyContainer
    /\ IF metadataCache
       THEN /\ knowledgeContainer' = TRUE
            /\ UNCHANGED labelFetching
       ELSE /\ labelFetching' = labelFetching + 1
            /\ UNCHANGED knowledgeContainer
    /\ IF returnsData
       THEN /\ cellTimers' = cellTimers + 1
            /\ UNCHANGED cellFetching
       ELSE /\ cellFetching' = cellFetching + 1
            /\ UNCHANGED cellTimers
    /\ UNCHANGED <<phase, selectedYear, clusterTickers, matrixResult,
                   matrixContainer, prismContainer, networkRows, loaderVars,
                   initPending, gens, lastReturn, matrixRuns, prismRuns,
                   benchEnabled, generated,
                   clusterVars, samplerVars, benchVars>>

\* The returns fetch of an onMatrixCellClick call resolves.
CellFetchResolves ==
    /\ cellFetching > 0
    /\ cellFetching' = cellFetching - 1
    /\ cellTimers' = cellTimers + 1
    /\ returnsData' = TRUE
    /\ UNCHANGED <<pageVars, nvSelectedYear, manifest, metadataCache,
                   correlationData, clusterResults, initPending, gens,
                   lastReturn, labelFetching, matrixRuns, prismRuns,
                   benchEnabled, clicks, generated,
                   clusterVars, samplerVars, benchVars>>

\* The timers of an onMatrixCellClick call have fired: its prisms are
\* rendered (computeAndRender gives null where it has no grid), and it sets
\* the phase.
CellDone ==
    /\ cellTimers > 0
    /\ cellTimers' = cellTimers - 1
    /\ \E rendered \in BOOLEAN : prismContainer' = (prismContainer \/ rendered)
    /\ phase' = "PRISM_SHOWN"
    /\ UNCHANGED <<selectedYear, clusterTickers, matrixResult, matrixContainer,
                   knowledgeContainer, networkRows, loaderVars, initPending,
                   gens, lastReturn, labelFetching, cellFetching, matrixRuns,
                   prismRuns, benchEnabled, clicks, generated,
                   clusterVars, samplerVars, benchVars>>

\* A click on the benchmark button: runCombinedBenchmark up to its first
\* sampler run that does not resolve at once (MatrixEnriched.measureBrush
\* resolves at once when the container holds no cell).
BenchClick ==
    /\ clicks < MaxClicks
    /\ clicks' = clicks + 1
    /\ benchEnabled
    /\ IF matrixResult = NoMatrixResult
       THEN UNCHANGED <<matrixRuns, prismRuns>>
       ELSE IF matrixContainer # EmptyContainer
            THEN /\ matrixRuns' = matrixRuns + 1
                 /\ UNCHANGED prismRuns
            ELSE /\ prismRuns' = prismRuns + (IF prismContainer THEN 1 ELSE 0)
                 /\ UNCHANGED matrixRuns
    /\ UNCHANGED <<pageVars, loaderVars, initPending, gens, lastReturn,
                   labelFetching, cellFetching, cellTimers, benchEnabled,
                   generated,
                   clusterVars, samplerVars, benchVars>>

\* A sampler run against the matrix resolves, and runCombinedBenchmark goes
\* on to the prism sampler when #prism-d3 holds a prism.
BenchMatrixDone ==
    /\ matrixRuns > 0
    /\ matrixRuns' = matrixRuns - 1
    /\ prismRuns' = prismRuns + (IF prismContainer THEN 1 ELSE 0)
    /\ UNCHANGED <<pageVars, loaderVars, initPending, gens, lastReturn,
                   labelFetching, cellFetching, cellTimers, benchEnabled,
                   clicks, generated,
                   clusterVars, samplerVars, benchVars>>

\* A sampler run against the prism resolves, and runCombinedBenchmark ends.
BenchPrismDone ==
    /\ prismRuns > 0
    /\ prismRuns' = prismRuns - 1
    /\ UNCHANGED <<matrixRuns, pageVars, loaderVars, initPending, gens,
                   lastReturn, labelFetching, cellFetching, cellTimers,
                   benchEnabled, clicks, generated,
                   clusterVars, samplerVars, benchVars>>

\* ---------------------------------------------------------- specifications

\* The trial arguments: negative, zero and positive.
TrialArgs == (-1)..MaxTrials

\* The trial arguments of a sampler: the small ones and one beyond its cap.
TrialArgsOf(k) ==
    IF k = "MatrixHover" THEN {MaxTrials} ELSE TrialArgs \cup {SamplesCap(k) + 1}

\* The sizes of the target selection of a sampler: the small ones and, for
\* measureHoverLatency, one beyond its cap.
TotalsOf(k) ==
    IF k = "MatrixHover" THEN 0..MaxCells \cup {SamplesCap(k) + 1} ELSE 0..MaxCells

InitCluster ==
    /\ corrData \in CorrDataSet
    /\ ClusterIdle
    /\ SamplerIdle
    /\ BenchIdle
    /\ AppIdle

NextCluster == DetectCluster

SpecCluster == InitCluster /\ [][NextCluster]_vars

InitSampler ==
    /\ corrData = MakeCorrData(1, [k \in Nodes(1) |-> 1], MatrixOf(1, {}))
    /\ ClusterIdle
    /\ SamplerIdle
    /\ BenchIdle
    /\ AppIdle

\* One sampler run, started on its own.
StartSampler ==
    /\ pc = "idle"
    /\ bench = "idle"
    /\ \E k \in AllKinds :
          \E tot \in TotalsOf(k), n \in TrialArgsOf(k) : MeasureBrush(k, tot, n)
    /\ UNCHANGED benchVars

NextSampler ==
    \/ StartSampler
    \/ FrameCallback
    \/ TimerFires

SpecSampler == InitSampler /\ [][NextSampler]_vars

\* The browser runs every requested frame callback and every expired timer.
SpecSamplerFair ==
    /\ InitSampler
    /\ [][NextSampler]_vars
    /\ WF_vars(FrameCallback)
    /\ WF_vars(TimerFires)

NextBenchmark ==
    \/ RunBenchmark
    \/ HoverResolved
    \/ BrushResolved
    \/ FrameCallback
    \/ TimerFires

\* One click on "Run Benchmark" of the standalone matrix page.
SpecBenchmark == InitSampler /\ [][NextBenchmark]_vars

\* DOMContentLoaded has wired the buttons and called init(), whose three
\* loaders have issued their fetches; the benchmark button is disabled until
\* onGenerateClusters enables it.
InitCombined ==
    /\ corrData = MakeCorrData(1, [k \in Nodes(1) |-> 1], MatrixOf(1, {}))
    /\ ClusterIdle
    /\ SamplerIdle
    /\ BenchIdle
    /\ phase = "INIT"
    /\ selectedYear = 0
    /\ clusterTickers = <<>>
    /\ matrixResult = NoMatrixResult
    /\ matrixContainer = EmptyContainer
    /\ prismContainer = FALSE
    /\ knowledgeContainer = FALSE
    /\ networkRows = <<>>
    /\ nvSelectedYear = 0
    /\ manifest = FALSE
    /\ metadataCache = FALSE
    /\ returnsData = FALSE
    /\ correlationData = {}
    /\ clusterResults = EmptyResults
    /\ initPending = Resources
    /\ gens = <<>>
    /\ lastReturn = NoReturn
    /\ labelFetching = 0
    /\ cellFetching = 0
    /\ cellTimers = 0
    /\ matrixRuns = 0
    /\ prismRuns = 0
    /\ benchEnabled = FALSE
    /\ generated = 0
    /\ clicks = 0

NextCombined ==
    \/ InitFetchResolves
    \/ GenerateClick
    \/ GenFetchResolves
    \/ YearClick
    \/ LabelClick
    \/ LabelFetchResolves
    \/ CellClick
    \/ CellFetchResolves
    \/ CellDone
    \/ BenchClick
    \/ BenchMatrixDone
    \/ BenchPrismDone

\* The combined page from DOMContentLoaded on, under MaxClicks clicks.
SpecCombined == InitCombined /\ [][NextCombined]_vars

\* init() has resolved before the first click: the three caches are filled
\* and the phase is READY.
InitLoaded ==
    /\ corrData = MakeCorrData(1, [k \in Nodes(1) |-> 1], MatrixOf(1, {}))
    /\ ClusterIdle
    /\ SamplerIdle
    /\ BenchIdle
    /\ phase = "READY"
    /\ selectedYear = 0
    /\ clusterTickers = <<>>
    /\ matrixResult = NoMatrixResult
    /\ matrixContainer = EmptyContainer
    /\ prismContainer = FALSE
    /\ knowledgeContainer = FALSE
    /\ networkRows = <<>>
    /\ nvSelectedYear = 0
    /\ manifest = TRUE
    /\ metadataCache = TRUE
    /\ returnsData = TRUE
    /\ correlationData = {}
    /\ clusterResults = EmptyResults
    /\ initPending = {}
    /\ gens = <<>>
    /\ lastReturn = NoReturn
    /\ labelFetching = 0
    /\ cellFetching = 0
    /\ cellTimers = 0
    /\ matrixRuns = 0
    /\ prismRuns = 0
    /\ benchEnabled = FALSE
    /\ generated = 0
    /\ clicks = 0

NextLoaded ==
    \/ GenerateClick
    \/ GenFetchResolves
    \/ YearClick
    \/ LabelClick
    \/ CellClick
    \/ CellDone
    \/ BenchClick
    \/ BenchMatrixDone
    \/ BenchPrismDone

\* The combined page from the end of init() on, under MaxClicks clicks.
SpecLoaded == InitLoaded /\ [][NextLoaded]_vars


\* ------------------------------------------- the threshold graph (reference)

\* A detectCluster call has returned.
Called == callArgs # NoCall

\* The threshold graph of the data model: an edge (a, b) exists iff a # b and
\* |matrix[a][b]| >= threshold.
QualifyingEdge(a, b) ==
    /\ a # b
    /\ LET v == corrData.matrix[a][b]
       IN  (IF v < 0 THEN -v ELSE v) >= callArgs.threshold

AllNodes == Nodes(corrData.nTickers)

HasQualifyingEdge(a) == \E b \in AllNodes : QualifyingEdge(a, b)

\* The nodes connected to the nodes of set by a path of qualifying edges.
RECURSIVE Closure(_)
Closure(set) ==
    LET more == set \cup {b \in AllNodes : \E a \in set : QualifyingEdge(a, b)}
    IN  IF more = set THEN set ELSE Closure(more)

\* The requested identifiers that are tickers of the matrix.
ValidRequested ==
    {t \in Range(callArgs.mustHaveTickers) :
        \E a \in AllNodes : corrData.tickers[a] = t}

Components == run.ret.components

\* The identifiers of the returned components whose containsMustHave is true.
MustHaveComponentTickers ==
    UNION { Range(Components[k].tickers) :
              k \in {m \in 1..Len(Components) : Components[m].containsMustHave} }

\* The requested identifiers present in the matrix without a qualifying edge.
IsolatedRequested ==
    {t \in ValidRequested :
        \A a \in AllNodes : corrData.tickers[a] = t => ~HasQualifyingEdge(a)}

StrictlyAscending(s) == \A k \in 1..(Len(s) - 1) : s[k] < s[k + 1]

\* ------------------------------------------------------------------ claims

\* C1 as stated: with at least one requested identifier present in the
\* matrix, clusterTickers is exactly the set of identifiers of the returned
\* components whose containsMustHave is true, without duplicates and in
\* ascending order.
C1_ClusterIsMustHaveComponents ==
    (Called /\ ValidRequested # {}) =>
        /\ Range(run.ret.clusterTickers) = MustHaveComponentTickers
        /\ StrictlyAscending(run.ret.clusterTickers)

\* C1 amended: with at least one requested identifier present in the matrix,
\* clusterTickers is exactly the set of identifiers of the returned components
\* whose containsMustHave is true together with every requested identifier
\* that is present in the matrix and has no qualifying edge, without
\* duplicates and in ascending order.
C1_ClusterIsComponentsAndIsolatedSeeds ==
    (Called /\ ValidRequested # {}) =>
        /\ Range(run.ret.clusterTickers) =
               MustHaveComponentTickers \cup IsolatedRequested
        /\ StrictlyAscending(run.ret.clusterTickers)

\* A call with one seed inside a component and one seed without any edge.
C1_Witness ==
    /\ Called
    /\ MustHaveComponentTickers # {}
    /\ IsolatedRequested # {}
    /\ Len(run.ret.clusterTickers) >= 3

\* C2 as stated: for every matrix and threshold the returned components are
\* pairwise disjoint, each is a maximal connected set of the threshold graph,
\* their union is exactly the set of nodes with a qualifying edge, and the
\* list is empty when no pair qualifies.
C2_Partition ==
    Called =>
        /\ \A k, m \in 1..Len(Components) :
              k # m => Range(Components[k].indices)
                           \cap Range(Components[m].indices) = {}
        /\ \A k \in 1..Len(Components) :
              LET idx == Components[k].indices
              IN  /\ Len(idx) >= 1
                  /\ Cardinality(Range(idx)) = Len(idx)
                  /\ Range(idx) = Closure({idx[1]})
        /\ UNION {Range(Components[k].indices) : k \in 1..Len(Components)}
              = {a \in AllNodes : HasQualifyingEdge(a)}
        /\ (\A a \in AllNodes : ~HasQualifyingEdge(a)) => Components = <<>>

\* C2 amended: the same, for every call in which at least one requested
\* must-have identifier is present in the matrix (a call without any returns
\* an empty component list whatever the graph).
C2_PartitionWithValidSeed ==
    (Called /\ ValidRequested # {}) =>
        /\ \A k, m \in 1..Len(Components) :
              k # m => Range(Components[k].indices)
                           \cap Range(Components[m].indices) = {}
        /\ \A k \in 1..Len(Components) :
              LET idx == Components[k].indices
              IN  /\ Len(idx) >= 1
                  /\ Cardinality(Range(idx)) = Len(idx)
                  /\ Range(idx) = Closure({idx[1]})
        /\ UNION {Range(Components[k].indices) : k \in 1..Len(Components)}
              = {a \in AllNodes : HasQualifyingEdge(a)}
        /\ (\A a \in AllNodes : ~HasQualifyingEdge(a)) => Components = <<>>

\* A call that returned two components and left a node without edge out.
C2_Witness ==
    /\ Called
    /\ ValidRequested # {}
    /\ Len(Components) = 2
    /\ \E a \in AllNodes : ~HasQualifyingEdge(a)

\* The degenerate threshold 1.1: no pair qualifies and no component returns.
C2_WitnessDegenerate ==
    /\ Called
    /\ ValidRequested # {}
    /\ callArgs.threshold = 11
    /\ corrData.nTickers = MaxN
    /\ Components = <<>>

\* C3: every node index listed in a returned component has a qualifying edge
\* to another node of that same component, so no isolated node is listed and
\* every component has at least two members.
C3_NoIsolatedNode ==
    Called =>
        \A k \in 1..Len(Components) :
            LET idx == Components[k].indices
            IN  /\ \A a \in Range(idx) :
                      \E b \in Range(idx) : QualifyingEdge(a, b)
                /\ Len(idx) >= 2
                /\ Components[k].size >= 2

\* A call whose seed has no edge (an isolated node) that returned a component.
C3_Witness ==
    /\ Called
    /\ Len(Components) >= 1
    /\ IsolatedRequested # {}

\* C4: of two returned components the one that contains a must-have node
\* precedes the one that does not; of two components that both or neither
\* contain one, the strictly larger precedes.
C4_ComponentOrder ==
    Called =>
        \A k, m \in 1..Len(Components) :
            LET A == Components[k]
                B == Components[m]
            IN  /\ (A.containsMustHave /\ ~B.containsMustHave) => k < m
                /\ (A.containsMustHave = B.containsMustHave /\ A.size > B.size)
                       => k < m

\* The sort moved a larger component, discovered later, in front of a
\* smaller one of the same category.
C4_Witness ==
    /\ Called
    /\ \E k, m \in 1..Len(Components) :
          /\ k < m
          /\ Components[k].id > Components[m].id
          /\ Components[k].containsMustHave = Components[m].containsMustHave
          /\ Components[k].size > Components[m].size

\* C5: when no requested identifier is a key of the identifier index the
\* result has an empty clusterTickers, an empty component list and the error
\* marker, and the call built no adjacency and ran no traversal; the error
\* marker is set in no other case.
C5_SeedNotFound ==
    Called =>
        /\ ValidRequested = {} =>
              /\ run.ret.clusterTickers = <<>>
              /\ run.ret.components = <<>>
              /\ run.ret.error # Undefined
              /\ ~run.adjBuilt
              /\ run.adj = <<>>
              /\ run.seedDequeued = <<>>
              /\ run.scanDequeued = <<>>
        /\ run.ret.error # Undefined => ValidRequested = {}

\* A call whose requested identifiers are all absent, on a graph with edges.
C5_Witness ==
    /\ Called
    /\ ValidRequested = {}
    /\ run.ret.error # Undefined
    /\ \E a \in AllNodes : HasQualifyingEdge(a)

\* The case of C6: one requested identifier, present, without qualifying edge.
OnlySeedIsolated ==
    /\ Called
    /\ Cardinality(Range(callArgs.mustHaveTickers)) = 1
    /\ ValidRequested # {}
    /\ IsolatedRequested = ValidRequested

\* C6 as stated: when the only requested identifier is present in the matrix
\* but has no qualifying edge, clusterTickers is empty and no error marker is
\* set.
C6_IsolatedSeedEmptyCluster ==
    OnlySeedIsolated =>
        /\ run.ret.clusterTickers = <<>>
        /\ run.ret.error = Undefined

\* C6 amended: when the only requested identifier is present in the matrix
\* but has no qualifying edge, clusterTickers holds exactly that identifier,
\* no returned component contains a must-have node and no error marker is
\* set; clusterTickers is empty only together with the error marker.
C6_IsolatedSeedSingleton ==
    /\ OnlySeedIsolated =>
          /\ Range(run.ret.clusterTickers) = Range(callArgs.mustHaveTickers)
          /\ Len(run.ret.clusterTickers) = 1
          /\ \A k \in 1..Len(Components) : ~Components[k].containsMustHave
          /\ run.ret.error = Undefined
    /\ (Called /\ run.ret.clusterTickers = <<>>) => run.ret.error # Undefined

\* An isolated only seed next to a component of other nodes.
C6_Witness ==
    /\ OnlySeedIsolated
    /\ Len(Components) >= 1

\* The fields of a result that C8 compares.
Shape(ret) ==
    [ clusterTickers |-> ret.clusterTickers,
      components     |-> [k \in 1..Len(ret.components) |->
                            [ indices          |-> ret.components[k].indices,
                              containsMustHave |->
                                  ret.components[k].containsMustHave ]] ]

\* The requested identifiers once each, in ascending order.
RECURSIVE Canonical(_)
Canonical(set) ==
    IF set = {} THEN <<>>
    ELSE LET least == CHOOSE x \in set : \A y \in set : x <= y
         IN  <<least>> \o Canonical(set \ {least})

\* C8: for a fixed matrix and threshold, every must-have list yields the
\* clusterTickers and the components (members, flags, order) that the list of
\* its identifiers without repetition in ascending order yields; hence any
\* two lists with the same identifiers, in whatever order and with whatever
\* repetitions, yield the same.
C8_MustHaveOrderIrrelevant ==
    Called =>
        Shape(detectCluster(corrData,
                            Canonical(Range(callArgs.mustHaveTickers)),
                            callArgs.threshold))
            = Shape(run.ret)

\* Two requested identifiers in two different components, the first one
\* requested being the lexically larger.
C8_Witness ==
    /\ Called
    /\ Len(callArgs.mustHaveTickers) = 2
    /\ callArgs.mustHaveTickers[1] > callArgs.mustHaveTickers[2]
    /\ Len(Components) = 2
    /\ Components[1].containsMustHave
    /\ Components[2].containsMustHave

\* C9: at most one trial of a run is between its trigger and its frame
\* callback, and a trigger is invoked only when every earlier trial has
\* recorded its latency and frame timestamp and no other next() is pending.
C9_TrialsSequential ==
    /\ Len(rafQueue) <= 1
    /\ Len(rafQueue) + timers <= 1
    /\ triggers = Len(latencies) + Len(rafQueue)
    /\ kind # "MatrixHover" => Len(stamps) = Len(latencies)
    /\ i = Len(latencies)

\* The second trial of a run is waiting for its frame.
C9_Witness ==
    /\ triggers = 2
    /\ rafQueue # <<>>
    /\ Len(latencies) = 1

\* C10: on a target selection with zero elements every brush sampler resolves
\* exactly once, to {p50: 0, p95: 0, fps: 0}, and invokes no trigger,
\* requests no frame and schedules no timer.
C10_EmptyTarget ==
    (pc # "idle" /\ total = 0 /\ kind \in SamplerKinds) =>
        /\ pc = "done"
        /\ resolved = <<ZeroStats>>
        /\ triggers = 0
        /\ rafRequests = 0
        /\ timerRequests = 0
        /\ rafQueue = <<>>
        /\ timers = 0

\* A sampler started with a positive trial argument on an empty selection.
C10_Witness ==
    /\ pc = "done"
    /\ total = 0
    /\ arg > 0
    /\ kind = "PrismMulti"
    /\ resolved = <<ZeroStats>>

\* -------------------------------------- claims about the adjacency and flags

\* C19: once detectCluster has built the adjacency list, for all node indices
\* i and j: j is in adj[i] iff i # j and |matrix[min(i,j)][max(i,j)]| >=
\* threshold; the adjacency is symmetric, has no self-loop and lists each
\* neighbour at most once.
C19_Adjacency ==
    (Called /\ run.adjBuilt) =>
        \A a, b \in AllNodes :
            LET lo == IF a <= b THEN a ELSE b
                hi == IF a <= b THEN b ELSE a
                v  == corrData.matrix[lo][hi]
            IN  /\ Includes(run.adj[a], b) <=>
                      (a # b /\ (IF v < 0 THEN -v ELSE v) >= callArgs.threshold)
                /\ Includes(run.adj[a], b) <=> Includes(run.adj[b], a)
                /\ ~Includes(run.adj[a], a)
                /\ Cardinality({k \in 1..Len(run.adj[a]) : run.adj[a][k] = b}) <= 1

\* An adjacency list with a node of two neighbours, an edge of negative
\* correlation and a node without neighbours.
C19_Witness ==
    /\ Called
    /\ run.adjBuilt
    /\ \E a \in AllNodes : Len(run.adj[a]) >= 2
    /\ \E a, b \in AllNodes :
          Includes(run.adj[a], b) /\ corrData.matrix[a][b] < 0
    /\ \E a \in AllNodes : run.adj[a] = <<>>

\* C20: for every returned component, containsMustHave is true iff the
\* component contains the index of at least one requested must-have
\* identifier that is present in the matrix, and its size equals the number
\* of its member indices.
C20_ContainsMustHave ==
    Called =>
        \A k \in 1..Len(Components) :
            LET c == Components[k]
            IN  /\ c.containsMustHave <=>
                      \E a \in Range(c.indices) :
                          corrData.tickers[a] \in ValidRequested
                /\ c.size = Len(c.indices)
                /\ c.size = Cardinality(Range(c.indices))

\* A call that requested an identifier of the matrix and one the matrix does
\* not hold, and returned a component flagged for a member that is not its
\* first and a component that is not flagged.
C20_Witness ==
    /\ Called
    /\ ValidRequested # {}
    /\ ValidRequested # Range(callArgs.mustHaveTickers)
    /\ \E k \in 1..Len(Components) :
          /\ Components[k].containsMustHave
          /\ corrData.tickers[Components[k].indices[1]] \notin ValidRequested
    /\ \E k \in 1..Len(Components) : ~Components[k].containsMustHave

\* ------------------------------------- claims about order and the traversals

\* The smallest node index of a component.
MinIndex(c) == CHOOSE a \in Range(c.indices) : \A b \in Range(c.indices) : a <= b

\* C21: among returned components with equal containsMustHave and equal
\* size, the order is the discovery order of the scan over the node indices,
\* i.e. ascending by the smallest node index of each component.
C21_TieOrder ==
    Called =>
        \A k, m \in 1..Len(Components) :
            (/\ k < m
             /\ Components[k].containsMustHave = Components[m].containsMustHave
             /\ Components[k].size = Components[m].size)
                => MinIndex(Components[k]) < MinIndex(Components[m])

\* A call that returned two components of equal flag and size.
C21_Witness ==
    /\ Called
    /\ \E k, m \in 1..Len(Components) :
          /\ k < m
          /\ Components[k].containsMustHave = Components[m].containsMustHave
          /\ Components[k].size = Components[m].size

\* How often x occurs in the list s.
Count(s, x) == Cardinality({k \in 1..Len(s) : s[k] = x})

\* The distances lv, known up to d edges, extended by the nodes one
\* qualifying edge beyond the nodes at distance d (frontier).
RECURSIVE LevelsLoop(_, _, _)
LevelsLoop(lv, frontier, d) ==
    LET more == {b \in AllNodes \ DOMAIN lv :
                    \E a \in frontier : QualifyingEdge(a, b)}
    IN  IF more = {} THEN lv
        ELSE LevelsLoop([x \in DOMAIN lv \cup more |->
                            IF x \in DOMAIN lv THEN lv[x] ELSE d + 1],
                        more, d + 1)

\* The number of edges of a shortest path from a to each node connected to a.
Levels(a) == LevelsLoop([x \in {a} |-> 0], {a}, 0)

\* The number of edges of a shortest path from a to b, b connected to a.
Dist(a, b) == Levels(a)[b]

\* The log of dequeued nodes is in breadth-first order: of two nodes of one
\* connected set, the one dequeued first is no farther from the first
\* dequeued node of that set (the start of its traversal).
BreadthFirst(log) ==
    \A first \in 1..Len(log) :
        LET lv == Levels(log[first])
        IN  (\A g \in 1..(first - 1) : log[g] \notin DOMAIN lv) =>
                \A p \in first..Len(log) : \A q \in (p + 1)..Len(log) :
                    (log[p] \in DOMAIN lv /\ log[q] \in DOMAIN lv) =>
                        lv[log[p]] <= lv[log[q]]

\* C22 as stated: the traversal is breadth-first and every node is dequeued
\* and expanded exactly once per detectCluster invocation.
C22_EachNodeOnce ==
    (Called /\ run.adjBuilt) =>
        /\ BreadthFirst(run.seedDequeued)
        /\ BreadthFirst(run.scanDequeued)
        /\ \A a \in AllNodes :
              Count(run.seedDequeued, a) + Count(run.scanDequeued, a) = 1

\* C22 amended: each of the two traversals (from the seeds, and the component
\* scan) is breadth-first and dequeues and expands each node at most once per
\* invocation: the first exactly the nodes connected to a valid seed, the
\* second exactly the nodes with a qualifying edge.
C22_EachNodeOncePerTraversal ==
    (Called /\ run.adjBuilt) =>
        /\ BreadthFirst(run.seedDequeued)
        /\ BreadthFirst(run.scanDequeued)
        /\ LET seeded == Closure({b \in AllNodes :
                                     corrData.tickers[b] \in ValidRequested})
           IN  \A a \in AllNodes :
                 /\ Count(run.seedDequeued, a) = (IF a \in seeded THEN 1 ELSE 0)
                 /\ Count(run.scanDequeued, a) =
                        (IF HasQualifyingEdge(a) THEN 1 ELSE 0)

\* A call whose scan dequeued a node two edges from its start, with a node
\* dequeued by both traversals and a node dequeued by none.
C22_Witness ==
    /\ Called
    /\ run.adjBuilt
    /\ \E p \in 1..Len(run.scanDequeued) :
          /\ run.scanDequeued[p] \in Closure({run.scanDequeued[1]})
          /\ Dist(run.scanDequeued[1], run.scanDequeued[p]) = 2
    /\ \E a \in AllNodes :
          Count(run.seedDequeued, a) = 1 /\ Count(run.scanDequeued, a) = 1
    /\ \E a \in AllNodes :
          Count(run.seedDequeued, a) = 0 /\ Count(run.scanDequeued, a) = 0

InFlight(r) ==
    (IF r \in initPending THEN 1 ELSE 0)
    + (IF r = "manifest"
       THEN Cardinality({g \in 1..Len(gens) : gens[g].at = 0})
       ELSE IF r = "metadata" THEN labelFetching ELSE cellFetching)

\* ------------------------------------------------ claims about the workflow

\* The values and the changes of state.phase that the orchestrator documents.
DocumentedPhases ==
    {"INIT", "READY", "CLUSTERS_SHOWN", "MATRIX_SHOWN", "PRISM_SHOWN",
     "KNOWLEDGE_SHOWN"}

DocumentedTransitions ==
    { <<"INIT", "READY">>,
      <<"READY", "CLUSTERS_SHOWN">>,
      <<"CLUSTERS_SHOWN", "MATRIX_SHOWN">>,
      <<"MATRIX_SHOWN", "PRISM_SHOWN">>,
      <<"MATRIX_SHOWN", "KNOWLEDGE_SHOWN">> }

\* C24: state.phase follows the documented state machine: every value it
\* takes is one of INIT, READY, CLUSTERS_SHOWN, MATRIX_SHOWN, PRISM_SHOWN,
\* KNOWLEDGE_SHOWN, and every change of it is one of INIT to READY, READY to
\* CLUSTERS_SHOWN, CLUSTERS_SHOWN to MATRIX_SHOWN, MATRIX_SHOWN to PRISM_SHOWN
\* and MATRIX_SHOWN to KNOWLEDGE_SHOWN.
C24_DocumentedStateMachine ==
    [][/\ phase' \in DocumentedPhases
       /\ phase' # phase => <<phase, phase'>> \in DocumentedTransitions]_vars

\* The cache of a resource is filled.
Loaded(r) ==
    IF r = "manifest" THEN manifest
    ELSE IF r = "metadata" THEN metadataCache ELSE returnsData

\* C25: the manifest, the metadata and the returns data are load-once caches:
\* whatever calls of loadManifest, ensureMetadataLoaded and ensureReturnsLoaded
\* overlap, a step issues a fetch for a resource only when no fetch for it is
\* in flight and none has succeeded.
C25_LoadOnce ==
    [][\A r \in Resources :
          InFlight(r)' > InFlight(r) => (InFlight(r) = 0 /\ ~Loaded(r))]_vars

\* C26: the map a generateClusters call resolves with holds, for every year
\* of the manifest whose data loaded in that call, the detectCluster result
\* of the call's own must-have list and threshold, and holds no other year,
\* also when two calls overlap at their awaits.
C26_OwnResults ==
    lastReturn # NoReturn =>
        \A y \in Years :
            lastReturn.results[y] =
                IF y \in lastReturn.loaded
                THEN detectCluster(CorrFile(y), lastReturn.mustHave,
                                   lastReturn.threshold)
                ELSE Absent

\* onGenerateClusters sets the phase to CLUSTERS_SHOWN in this step (its
\* generateClusters call resolves).
SetsClustersShown == lastReturn' # lastReturn

\* C27: in every step in which onGenerateClusters sets the phase to
\* CLUSTERS_SHOWN, state.selectedYear is null, state.clusterTickers is empty
\* and the matrix container is empty, whatever the user clicked while the
\* generation awaited its data.
C27_CleanWhenShown ==
    [][SetsClustersShown =>
          /\ phase' = "CLUSTERS_SHOWN"
          /\ selectedYear' = 0
          /\ clusterTickers' = <<>>
          /\ matrixContainer' = EmptyContainer]_vars

\* C28: state.matrixResult is non-null exactly when the matrix container
\* holds the matrix it describes, so that runCombinedBenchmark, which refuses
\* to run on a null matrixResult, benchmarks only a rendered matrix and is
\* refused after onGenerateClusters has cleared the views until a year is
\* selected again.
C28_ResultDescribesContainer ==
    (matrixResult # NoMatrixResult) <=>
        /\ matrixContainer # EmptyContainer
        /\ matrixContainer.tickers = matrixResult.tickers

\* The position of ticker t in the tickers of year y.
IndexOf(y, t) == CHOOSE k \in Nodes(CorrFile(y).nTickers) : CorrFile(y).tickers[k] = t

\* C29: in the year-selection workflow every ticker handed to subsetMatrix is
\* a key of the selected year's tickerIndex (every year row holds only tickers
\* of its year, whose data is at hand), so the fallback to index 0 never
\* runs, and the rendered sub-matrix has entry [a][b] equal to the full
\* matrix entry of tickers a and b, in the order of clusterTickers.
C29_SubMatrixOfSelectedYear ==
    /\ \A r \in 1..Len(networkRows) :
          /\ networkRows[r].year \in correlationData
          /\ Range(networkRows[r].clusterTickers) \subseteq
                 DOMAIN CorrFile(networkRows[r].year).tickerIndex
    /\ clusterTickers # <<>> =>
          /\ matrixContainer.tickers = clusterTickers
          /\ matrixContainer.year = selectedYear
    /\ matrixContainer # EmptyContainer =>
          /\ ~matrixContainer.fallback
          /\ \A a, b \in 1..Len(matrixContainer.tickers) :
                matrixContainer.matrix[a][b] =
                    CorrFile(matrixContainer.year).matrix
                        [IndexOf(matrixContainer.year, matrixContainer.tickers[a])]
                        [IndexOf(matrixContainer.year, matrixContainer.tickers[b])]

\* A year row was clicked whose cluster holds two tickers that are neither
\* the first ones of the year's matrix nor in its order, and their sub-matrix
\* is rendered.
C29_Witness ==
    /\ phase = "MATRIX_SHOWN"
    /\ Len(clusterTickers) = 2
    /\ matrixContainer.tickers = clusterTickers
    /\ matrixContainer.year = selectedYear
    /\ IndexOf(selectedYear, clusterTickers[1]) > IndexOf(selectedYear, clusterTickers[2])
    /\ IndexOf(selectedYear, clusterTickers[2]) > 0
    /\ matrixContainer.matrix[1][2] = -9

\* C30: whatever buttons the user clicks, runCombinedBenchmark never starts
\* a sampler run against a visual target (the matrix, the prism) while an
\* earlier run against that target is still in flight: at most one run per
\* target is in flight.
C30_OneRunPerTarget ==
    /\ matrixRuns <= 1
    /\ prismRuns <= 1

\* ------------------------------------------------- claims about the samplers

\* C11: when runBenchmark of matrix.js runs on a rendered view with zero
\* cells, measureHoverLatency and measureBrushLatency resolve to a structured
\* zero-valued statistics record and runBenchmark ends with its report, never
\* with an unhandled fault.
C11_ZeroCellsBenchmark ==
    (bench \in {"hover", "brush", "reported", "fault"} /\ total = 0) =>
        /\ \A k \in 1..Len(resolved) :
               resolved[k] \in {ZeroStats, [p50 |-> Num(0), p95 |-> Num(0)]}
        /\ bench # "fault"

\* The samplers that keep a frame-timestamp list and report an fps.
BrushKinds == SamplerKinds \cup {"MatrixBrush"}

\* A run on a non-empty target has resolved its promise.
RunDone == pc = "done" /\ total > 0

\* What the promise of the run was resolved with.
Reported == resolved[Len(resolved)]

\* The latency the k-th trial of a brush sampler measured: its T1 - T0.
Measured(k) == stamps[k] - t0s[k]

\* The list s ascends.
Ascending(s) == \A k \in 1..(Len(s) - 1) : s[k] <= s[k + 1]

\* C12: for every sampler run that collected at least one latency sample, the
\* reported p50 is less than or equal to the reported p95.
C12_P50AtMostP95 ==
    (RunDone /\ Len(latencies) >= 1) =>
        /\ Reported.p50.tag = "number"
        /\ Reported.p95.tag = "number"
        /\ Reported.p50.val <= Reported.p95.val

\* A brush run whose trials measured a larger latency before a smaller one
\* and that reports a p50 below its p95.
C12_Witness ==
    /\ RunDone
    /\ kind \in BrushKinds
    /\ Len(latencies) >= 3
    /\ \E k \in 1..(Len(stamps) - 1) : Measured(k) > Measured(k + 1)
    /\ Reported.p50.val < Reported.p95.val

\* C13: after all trials the latency list is sorted ascending, p50 is its
\* element at index floor(0.5 * len) and p95 its element at index
\* floor(0.95 * len), with no interpolation; for every len >= 1 both indices
\* lie in 0..len-1.
C13_NearestRank ==
    (RunDone /\ Len(latencies) >= 1) =>
        LET len == Len(latencies)
            i50 == len \div 2
            i95 == (19 * len) \div 20
        IN  /\ Ascending(latencies)
            /\ i50 \in 0..(len - 1)
            /\ i95 \in 0..(len - 1)
            /\ Reported.p50 = Num(latencies[i50 + 1])
            /\ Reported.p95 = Num(latencies[i95 + 1])

\* A run of sixty trials (p50 at index 30, p95 at index 57) and a run of one
\* trial (both at index 0) are both reachable; this is the first.
C13_Witness ==
    /\ RunDone
    /\ Len(latencies) = 60
    /\ Reported.p95 = Num(latencies[58])

\* C14 as stated: the reported fps equals 1000 / ((last - first) / (count - 1))
\* when more than one frame timestamp was recorded (Infinity on a zero span),
\* and 0 when the count is 0 or 1.
C14_FpsExact ==
    (pc = "done" /\ total > 0 /\ kind \in BrushKinds) =>
        LET count == Len(stamps)
            span  == stamps[count] - stamps[1]
        IN  IF count > 1
            THEN IF span = 0 THEN Reported.fps = InfinityValue
                 ELSE /\ Reported.fps.tag = "number"
                      /\ Reported.fps.val * span = 1000 * (count - 1)
            ELSE Reported.fps = Num(0)

\* C14 amended: the reported fps is that quotient rounded to the nearest
\* integer, halves up (Math.round); Infinity on a zero span; 0 when the count
\* is 0 or 1.
C14_FpsRounded ==
    (pc = "done" /\ total > 0 /\ kind \in BrushKinds) =>
        LET count == Len(stamps)
            span  == stamps[count] - stamps[1]
        IN  IF count > 1
            THEN IF span = 0 THEN Reported.fps = InfinityValue
                 ELSE /\ Reported.fps.tag = "number"
                      /\ 2 * Reported.fps.val * span - 2000 * (count - 1) <= span
                      /\ 2000 * (count - 1) - 2 * Reported.fps.val * span < span
            ELSE Reported.fps = Num(0)

\* Three frames over three milliseconds: 666.67 frames per second, reported
\* as 667.
C14_Witness ==
    /\ pc = "done"
    /\ kind \in BrushKinds
    /\ Len(stamps) = 3
    /\ stamps[3] - stamps[1] = 3
    /\ Reported.fps = Num(667)

\* C15: a brush sampler run on a non-empty target with S = min(cap, n) >= 1
\* invokes the trigger exactly S times, pushes exactly one latency and one
\* frame timestamp per trial (T1 - T0 of that same trial) and resolves its
\* promise exactly once, when both lists have length S.
C15_ExactlySTrials ==
    (pc # "idle" /\ total > 0 /\ kind \in BrushKinds
                /\ Min(SamplesCap(kind), arg) >= 1) =>
        LET S == Min(SamplesCap(kind), arg)
        IN  /\ triggers <= S
            /\ Len(t0s) = triggers
            /\ Len(stamps) = triggers - Len(rafQueue)
            /\ Len(latencies) = Len(stamps)
            /\ (pc = "running") =>
                   /\ resolved = <<>>
                   /\ \A k \in 1..Len(latencies) : latencies[k] = Measured(k)
            /\ (pc = "done") =>
                   /\ Len(resolved) = 1
                   /\ triggers = S
                   /\ Len(latencies) = S
                   /\ Len(stamps) = S
                   /\ Ascending(latencies)
                   /\ \A v \in Range(latencies) \cup {Measured(k) : k \in 1..S} :
                          Cardinality({k \in 1..S : latencies[k] = v}) =
                          Cardinality({k \in 1..S : Measured(k) = v})

\* A run asked for more trials than the cap of its sampler has resolved.
C15_Witness ==
    /\ pc = "done"
    /\ kind = "MatrixEnriched"
    /\ total > 0
    /\ arg > SamplesCap(kind)
    /\ triggers = SamplesCap(kind)
    /\ Len(resolved) = 1

\* C16: on a non-empty target with a zero or negative trial count a brush
\* sampler runs no trial and resolves to a {p50, p95, fps} record whose three
\* fields are defined numbers.
C16_NonPositiveTrials ==
    (pc # "idle" /\ total > 0 /\ kind \in BrushKinds /\ arg <= 0) =>
        /\ pc = "done"
        /\ triggers = 0
        /\ rafRequests = 0
        /\ timerRequests = 0
        /\ Len(resolved) = 1
        /\ Reported.p50.tag = "number"
        /\ Reported.p95.tag = "number"
        /\ Reported.fps.tag = "number"

\* C17: once started, a sampler run resolves its promise, provided every
\* requested frame callback and every zero-delay timer eventually fires; no
\* step takes a started run back, and none drops a pending callback or timer.
C17_RunCompletes ==
    /\ (pc = "running") ~> (pc = "done")
    /\ [][ /\ (pc = "running" => pc' \in {"running", "done"})
           /\ (pc = "done" => pc' = "done")
           /\ Len(rafQueue') + timers' + Len(resolved') >=
                  Len(rafQueue) + timers + Len(resolved) ]_vars

\* A run of three trials has resolved.
C17_Witness ==
    /\ pc = "done"
    /\ total > 0
    /\ triggers = 3
    /\ rafQueue = <<>>
    /\ timers = 0

\* C18 as stated: a trial suspends at one point only, the wait for its frame,
\* so a run has begun at most as many suspensions as it has invoked triggers.
C18_OneSuspensionPerTrial ==
    (pc # "idle" /\ total > 0) => rafRequests + timerRequests <= triggers

\* C18 amended: a trial suspends at exactly two points, the wait for its
\* frame after the trigger and the zero-delay timer its frame callback sets,
\* and resumes exactly once from each before the next trial begins: every
\* trigger requests one frame, every frame callback sets one timer, every
\* timer that fired invoked the next trigger or resolved the run, and at most
\* one suspension is pending.
C18_TwoSuspensionsPerTrial ==
    (pc # "idle" /\ total > 0 /\ samples >= 1) =>
        /\ rafRequests = triggers
        /\ rafRequests - Len(rafQueue) = Len(latencies)
        /\ timerRequests = Len(latencies)
        /\ timerRequests - timers =
               (triggers - 1) + (IF pc = "done" THEN 1 ELSE 0)
        /\ Len(rafQueue) + timers <= 1

\* The second trial of a run has begun, after the frame wait and the timer
\* of the first.
C18_Witness ==
    /\ pc = "running"
    /\ triggers = 2
    /\ rafRequests = 2
    /\ timerRequests = 1
    /\ timers = 0

====
